---- MODULE Spec2Model ----
(***************************************************************************)
(* Model of the meal analyser of app.py: the /analyze request handler, the *)
(* audit log it writes, and the pure text pipeline behind it               *)
(* (parse_meal_text, find_best_food_token, calc_nutrition_for_item,        *)
(* sum_totals, analyze_meal_text).                                         *)
(*                                                                         *)
(* Text is a sequence of one-character strings.  Numbers are fixed point:  *)
(*   grams                    in 1/100 g                                   *)
(*   per-100 g table values   in 1/10 of the nutrient's unit               *)
(*   nutrient amounts         in 1/100000 of the nutrient's unit           *)
(*                              (grams * per100, exactly)                  *)
(*   confidence               in 1/100                                     *)
(* round(x, n) yields the nearest multiple; at an exact tie, either one.   *)
(***************************************************************************)
EXTENDS Integers, Sequences, FiniteSets, TLC

VARIABLES
    phase,      \* "idle" | "pending" | "responded": where the request is
    request,    \* meal_text of the request being handled (NoText when idle)
    parsed,     \* the items parse_meal_text returned for it (<<>> before that)
    response,   \* what analyze() returned for it (NoResponse before that)
    sinkCall,   \* the arguments save_log was called with during this request
    dbOpen,     \* g._database holds an open connection (get_db .. teardown)
    logs,       \* number of rows of table logs
    warnings,   \* number of "Failed to save log" warnings written
    analyses,   \* number of calls of analyze_meal_text
    saves,      \* number of calls of save_log
    served      \* number of requests received

vars == <<phase, request, parsed, response, sinkCall, dbOpen, logs, warnings, analyses, saves, served>>

----------------------------------------------------------------------------
(* Characters and strings                                                  *)

UpperChars == <<"A","B","C","D","E","F","G","H","I","J","K","L","M",
                "N","O","P","Q","R","S","T","U","V","W","X","Y","Z">>
LowerChars == <<"a","b","c","d","e","f","g","h","i","j","k","l","m",
                "n","o","p","q","r","s","t","u","v","w","x","y","z">>
DigitChars == <<"0","1","2","3","4","5","6","7","8","9">>

IsUpper(c) == \E i \in 1..26 : UpperChars[i] = c
IsLower(c) == \E i \in 1..26 : LowerChars[i] = c
IsDigit(c) == \E i \in 1..10 : DigitChars[i] = c
DigitVal(c) == (CHOOSE i \in 1..10 : DigitChars[i] = c) - 1

\* str.lower() on one character
LowerChar(c) ==
    IF IsUpper(c) THEN LowerChars[CHOOSE i \in 1..26 : UpperChars[i] = c] ELSE c

\* str.lower()
Lower(s) == [i \in 1..Len(s) |-> LowerChar(s[i])]

\* \s of the regular expressions, and what str.strip() removes
IsSpace(c) == c \in {" ", "\t"}

\* \w of the regular expressions
IsWordChar(c) == IsUpper(c) \/ IsLower(c) \/ IsDigit(c) \/ c = "_"

\* \b before position i (between s[i-1] and s[i])
WordBoundary(s, i) ==
    LET w(j) == j \in 1..Len(s) /\ IsWordChar(s[j])
    IN  w(i - 1) # w(i)

\* str.strip()
Strip(s) ==
    LET keep == {i \in 1..Len(s) : ~IsSpace(s[i])}
    IN  IF keep = {} THEN <<>>
        ELSE SubSeq(s, CHOOSE i \in keep : \A j \in keep : i <= j,
                       CHOOSE i \in keep : \A j \in keep : i >= j)

\* the literal w stands at position i of s
MatchesAt(s, i, w) ==
    /\ i >= 1
    /\ i + Len(w) - 1 <= Len(s)
    /\ \A k \in 1..Len(w) : s[i + k - 1] = w[k]

\* the same under re.I
MatchesAtI(s, i, w) ==
    /\ i >= 1
    /\ i + Len(w) - 1 <= Len(s)
    /\ \A k \in 1..Len(w) : LowerChar(s[i + k - 1]) = LowerChar(w[k])

\* x in s, for strings
Contains(s, x) == \E i \in 1..(Len(s) + 1) : MatchesAt(s, i, x)

\* how many characters from position i on satisfy \d, resp. \s
DigitRun(s, i) ==
    CHOOSE n \in 0..(Len(s) + 1 - i) :
        /\ \A k \in 0..(n - 1) : IsDigit(s[i + k])
        /\ (i + n > Len(s) \/ ~IsDigit(s[i + n]))
SpaceRun(s, i) ==
    CHOOSE n \in 0..(Len(s) + 1 - i) :
        /\ \A k \in 0..(n - 1) : IsSpace(s[i + k])
        /\ (i + n > Len(s) \/ ~IsSpace(s[i + n]))

Min(S) == CHOOSE x \in S : \A y \in S : x <= y
Max(S) == CHOOSE x \in S : \A y \in S : x >= y

----------------------------------------------------------------------------
(* The regular expressions of the parser.  A match tries its alternatives  *)
(* in the order the regex engine does (greedy first, leftmost alternative  *)
(* first) and keeps the first that lets the rest of the pattern match.     *)

\* re.split(r",|\band\b", text): length of the separator at position i, or 0
SepLenAt(text, i) ==
    IF text[i] = "," THEN 1
    ELSE IF /\ MatchesAt(text, i, <<"a","n","d">>)
            /\ WordBoundary(text, i)
            /\ WordBoundary(text, i + 3)
         THEN 3
         ELSE 0

RECURSIVE SplitFrom(_, _, _)
SplitFrom(text, i, start) ==
    IF i > Len(text) THEN << SubSeq(text, start, Len(text)) >>
    ELSE LET k == SepLenAt(text, i)
         IN  IF k > 0
             THEN << SubSeq(text, start, i - 1) >> \o SplitFrom(text, i + k, i + k)
             ELSE SplitFrom(text, i + 1, start)

re_split(text) == SplitFrom(text, 1, 1)

\* the first candidate that matched, of candidates in the order the engine
\* tries them; none if no candidate matched
FirstOk(candidates, none) ==
    LET hit == {n \in 1..Len(candidates) : candidates[n].ok}
    IN  IF hit = {} THEN none ELSE candidates[Min(hit)]

\* \d+(?:\.\d+)? from position i: the positions right after the number, in the
\* order the engine tries them (longest digit run first; with the fraction,
\* longest first, before without it)
FracEnds(s, j) ==      \* j: position right after the integer part
    IF j <= Len(s) /\ s[j] = "." /\ DigitRun(s, j + 1) > 0
    THEN [f \in 1..DigitRun(s, j + 1) |-> j + 1 + DigitRun(s, j + 1) + 1 - f]
    ELSE <<>>

RECURSIVE NumberEndsUpTo(_, _, _)
NumberEndsUpTo(s, i, n) ==
    IF n = 0 THEN <<>>
    ELSE FracEnds(s, i + n) \o <<i + n>> \o NumberEndsUpTo(s, i, n - 1)

NumberEnds(s, i) == NumberEndsUpTo(s, i, DigitRun(s, i))

\* float(<digits>[.<digits>]) in 1/100; numerals carry at most two fractional digits
RECURSIVE DigitsValue(_)
DigitsValue(ds) ==
    IF ds = <<>> THEN 0
    ELSE 10 * DigitsValue(SubSeq(ds, 1, Len(ds) - 1)) + DigitVal(ds[Len(ds)])

NumberValue(num) ==
    LET d    == DigitRun(num, 1)
        frac == SubSeq(num, d + 2, Len(num))
    IN  100 * DigitsValue(SubSeq(num, 1, d))
        + (IF Len(frac) = 0 THEN 0
           ELSE IF Len(frac) = 1 THEN 10 * DigitsValue(frac)
           ELSE DigitsValue(SubSeq(frac, 1, 2)))

\* a match of grams_re: where it starts, the position after the number, the
\* position after the match
NoMatch == [ok |-> FALSE, start |-> 0, numEnd |-> 0, end |-> 0]

\* grams_re = (?P<grams>\d+(?:\.\d+)?)\s*g\b with re.I.
\* \s*g\b after a number that starts at s and ends before e, the spaces taken
\* greedily
GramsTail(p, s, e) ==
    FirstOk([n \in 1..(SpaceRun(p, e) + 1) |->
                LET w == SpaceRun(p, e) + 1 - n
                IN  [ok     |-> /\ MatchesAtI(p, e + w, <<"g">>)
                                /\ WordBoundary(p, e + w + 1),
                     start  |-> s,
                     numEnd |-> e,
                     end    |-> e + w + 1]],
            NoMatch)

\* grams_re tried at position s
GramsMatchAt(p, s) ==
    FirstOk([n \in 1..Len(NumberEnds(p, s)) |-> GramsTail(p, s, NumberEnds(p, s)[n])],
            NoMatch)

\* grams_re.search(p) looking from position from on: the leftmost match
GramsSearchFrom(p, from) ==
    FirstOk([n \in 1..(Len(p) + 1 - from) |-> GramsMatchAt(p, from + n - 1)], NoMatch)

grams_search(p) == GramsSearchFrom(p, 1)

\* grams_re.sub("", p): every non-overlapping match removed
RECURSIVE GramsSubFrom(_, _)
RECURSIVE GramsSubAfter(_, _, _)
GramsSubAfter(p, from, m) ==
    IF ~m.ok THEN SubSeq(p, from, Len(p))
    ELSE SubSeq(p, from, m.start - 1) \o GramsSubFrom(p, m.end)

GramsSubFrom(p, from) == GramsSubAfter(p, from, GramsSearchFrom(p, from))

grams_sub(p) == GramsSubFrom(p, 1)

\* the unit alternatives of number_unit_food_re, in the order written
UnitAlternatives ==
    << <<"g">>, <<"g","r","a","m","s">>, <<"g","r","a","m">>, <<"k","g">>,
       <<"c","u","p">>, <<"c","u","p","s">>, <<"t","b","s","p">>,
       <<"t","a","b","l","e","s","p","o","o","n">>, <<"t","s","p">>,
       <<"t","e","a","s","p","o","o","n">>, <<"s","l","i","c","e">>,
       <<"s","l","i","c","e","s">>, <<"s","e","r","v","i","n","g">>,
       <<"s","e","r","v","i","n","g","s">>, <<"p","i","e","c","e">>,
       <<"p","i","e","c","e","s">>, <<"e","g","g">>, <<"e","g","g","s">> >>

\* the groups of a match of number_unit_food_re
NoGroups == [ok |-> FALSE, number |-> <<>>, unit |-> <<>>, food |-> <<>>]

\* (?P<food>.+) at position i, after the groups number and unit
Food(p, number, unit, i) ==
    [ok |-> i <= Len(p), number |-> number, unit |-> unit, food |-> SubSeq(p, i, Len(p))]

\* \s*(?P<food>.+) at position i
WsFood(p, number, unit, i) ==
    FirstOk([n \in 1..(SpaceRun(p, i) + 1) |->
                Food(p, number, unit, i + SpaceRun(p, i) + 1 - n)],
            NoGroups)

\* (?:of)?\s*(?P<food>.+) at position i
OfWsFood(p, number, unit, i) ==
    FirstOk(<< IF MatchesAtI(p, i, <<"o","f">>)
               THEN WsFood(p, number, unit, i + 2)
               ELSE NoGroups,
               WsFood(p, number, unit, i) >>,
            NoGroups)

\* \s*(?:of)?\s*(?P<food>.+) at position i
WsOfWsFood(p, number, unit, i) ==
    FirstOk([n \in 1..(SpaceRun(p, i) + 1) |->
                OfWsFood(p, number, unit, i + SpaceRun(p, i) + 1 - n)],
            NoGroups)

\* (?P<unit>g|grams|...)?\s*(?:of)?\s*(?P<food>.+) at position i: each
\* alternative in turn, then no unit
UnitOfFood(p, number, i) ==
    FirstOk([u \in 1..(Len(UnitAlternatives) + 1) |->
                IF u > Len(UnitAlternatives) THEN WsOfWsFood(p, number, <<>>, i)
                ELSE IF MatchesAtI(p, i, UnitAlternatives[u])
                THEN WsOfWsFood(p, number,
                                SubSeq(p, i, i + Len(UnitAlternatives[u]) - 1),
                                i + Len(UnitAlternatives[u]))
                ELSE NoGroups],
            NoGroups)

\* \s*(?P<unit>...)?... after the number p[1..e-1]
AfterNumber(p, e) ==
    FirstOk([n \in 1..(SpaceRun(p, e) + 1) |->
                UnitOfFood(p, SubSeq(p, 1, e - 1), e + SpaceRun(p, e) + 1 - n)],
            NoGroups)

\* number_unit_food_re.match(p): anchored at the start of p
number_unit_food_match(p) ==
    FirstOk([n \in 1..Len(NumberEnds(p, 1)) |-> AfterNumber(p, NumberEnds(p, 1)[n])],
            NoGroups)

----------------------------------------------------------------------------
(* Tables                                                                  *)

NUTRIENTS == <<"calories", "protein", "carbs", "fat", "fiber", "vitamin_c">>

\* recommended daily intake, in the nutrient's unit
RDI == [calories |-> 2000, protein |-> 50, carbs |-> 275,
        fat |-> 70, fiber |-> 28, vitamin_c |-> 90]

\* unit -> grams
UNIT_TO_G ==
    << [unit |-> <<"g">>, g |-> 1],
       [unit |-> <<"g","r","a","m">>, g |-> 1],
       [unit |-> <<"g","r","a","m","s">>, g |-> 1],
       [unit |-> <<"k","g">>, g |-> 1000],
       [unit |-> <<"c","u","p">>, g |-> 240],
       [unit |-> <<"c","u","p","s">>, g |-> 240],
       [unit |-> <<"t","b","s","p">>, g |-> 15],
       [unit |-> <<"t","a","b","l","e","s","p","o","o","n">>, g |-> 15],
       [unit |-> <<"t","s","p">>, g |-> 5],
       [unit |-> <<"s","l","i","c","e">>, g |-> 30],
       [unit |-> <<"s","l","i","c","e","s">>, g |-> 30],
       [unit |-> <<"s","e","r","v","i","n","g">>, g |-> 100],
       [unit |-> <<"s","e","r","v","i","n","g","s">>, g |-> 100],
       [unit |-> <<"p","i","e","c","e">>, g |-> 80],
       [unit |-> <<"p","i","e","c","e","s">>, g |-> 80],
       [unit |-> <<"e","g","g">>, g |-> 50],
       [unit |-> <<"e","g","g","s">>, g |-> 50] >>

InUnitTable(unit) == \E i \in 1..Len(UNIT_TO_G) : UNIT_TO_G[i].unit = unit
UnitGrams(unit) == UNIT_TO_G[CHOOSE i \in 1..Len(UNIT_TO_G) : UNIT_TO_G[i].unit = unit].g

\* The food table read from food_db.json at start-up, in file order: an input
\* of the program.  Per-100 g values in tenths, serving_g in grams.  The egg
\* entry is the one of the documented example.
FOOD_DB ==
    << [key |-> <<"e","g","g">>,
        calories |-> 1550, protein |-> 130, carbs |-> 11, fat |-> 110,
        fiber |-> 0, vitamin_c |-> 0, serving_g |-> 50],
       [key |-> <<"r","i","c","e">>,
        calories |-> 1300, protein |-> 27, carbs |-> 280, fat |-> 3,
        fiber |-> 4, vitamin_c |-> 0, serving_g |-> 150],
       [key |-> <<"b","a","n","a","n","a">>,
        calories |-> 890, protein |-> 11, carbs |-> 230, fat |-> 3,
        fiber |-> 26, vitamin_c |-> 87, serving_g |-> 120],
       [key |-> <<"d","a","l">>,
        calories |-> 1160, protein |-> 100, carbs |-> 200, fat |-> 4,
        fiber |-> 84, vitamin_c |-> 15, serving_g |-> 150],
       [key |-> <<"f","r","i","e","d"," ","r","i","c","e">>,
        calories |-> 1630, protein |-> 41, carbs |-> 210, fat |-> 62,
        fiber |-> 11, vitamin_c |-> 23, serving_g |-> 200] >>

FOOD_KEYS == [i \in 1..Len(FOOD_DB) |-> FOOD_DB[i].key]

\* Python's None as a food key: no text equals it
None == <<"None">>

\* key in FOOD_DB, FOOD_DB[key]
InFoodDB(key) == \E i \in 1..Len(FOOD_DB) : FOOD_KEYS[i] = key
FoodEntry(key) == FOOD_DB[CHOOSE i \in 1..Len(FOOD_DB) : FOOD_KEYS[i] = key]

----------------------------------------------------------------------------
(* difflib                                                                 *)

\* characters in code-point order, for comparing strings
CodeOrder == <<"\t", " ", ",", ".">> \o DigitChars \o UpperChars \o <<"_">> \o LowerChars
Code(c) == CHOOSE i \in 1..Len(CodeOrder) : CodeOrder[i] = c

\* x < y for strings
StrLess(x, y) ==
    \/ /\ Len(x) < Len(y)
       /\ \A k \in 1..Len(x) : x[k] = y[k]
    \/ \E k \in 1..Min({Len(x), Len(y)}) :
          /\ \A m \in 1..(k - 1) : x[m] = y[m]
          /\ Code(x[k]) < Code(y[k])

\* length of the common run of a[i..ahi] and b[j..bhi]
RunLen(a, b, i, j, ahi, bhi) ==
    LET lim == Min({ahi - i + 1, bhi - j + 1})
    IN  CHOOSE n \in 0..lim :
            /\ \A k \in 0..(n - 1) : a[i + k] = b[j + k]
            /\ (n = lim \/ a[i + n] # b[j + n])

\* the longest of the blocks, starting earliest in a, then earliest in b
Longest(blocks) ==
    CHOOSE m \in blocks : \A o \in blocks :
        \/ m.k > o.k
        \/ m.k = o.k /\ m.i < o.i
        \/ m.k = o.k /\ m.i = o.i /\ m.j <= o.j

\* SequenceMatcher.find_longest_match on a[alo..ahi], b[blo..bhi]
find_longest_match(a, b, alo, ahi, blo, bhi) ==
    Longest({[i |-> i, j |-> j, k |-> RunLen(a, b, i, j, ahi, bhi)] :
                i \in alo..ahi, j \in blo..bhi})

\* sum of the sizes of SequenceMatcher.get_matching_blocks
RECURSIVE MatchCount(_, _, _, _, _, _)
RECURSIVE MatchCountAround(_, _, _, _, _, _, _)
MatchCountAround(a, b, alo, ahi, blo, bhi, m) ==
    IF m.k = 0 THEN 0
    ELSE m.k + MatchCount(a, b, alo, m.i - 1, blo, m.j - 1)
             + MatchCount(a, b, m.i + m.k, ahi, m.j + m.k, bhi)

MatchCount(a, b, alo, ahi, blo, bhi) ==
    IF alo > ahi \/ blo > bhi THEN 0
    ELSE MatchCountAround(a, b, alo, ahi, blo, bhi,
                          find_longest_match(a, b, alo, ahi, blo, bhi))

\* SequenceMatcher(None, a, b).ratio() = 2.0 * M / T as the fraction num / den
\* (1.0 when both are empty)
ratio(a, b) ==
    IF Len(a) + Len(b) = 0 THEN [num |-> 1, den |-> 1]
    ELSE [num |-> 2 * MatchCount(a, b, 1, Len(a), 1, Len(b)), den |-> Len(a) + Len(b)]

\* ratio >= cutoff 0.6; real_quick_ratio and quick_ratio are upper bounds of
\* ratio and filter nothing more
AtLeastCutoff(r) == 10 * r.num >= 6 * r.den

\* the largest (score, x) pair among the possibilities scoring at least the
\* cutoff, as a list of at most one x
Largest(possibilities, score) ==
    LET good == {i \in 1..Len(possibilities) : AtLeastCutoff(score[i])}
        Less(i, j) ==
            \/ score[i].num * score[j].den < score[j].num * score[i].den
            \/ /\ score[i].num * score[j].den = score[j].num * score[i].den
               /\ StrLess(possibilities[i], possibilities[j])
    IN  IF good = {} THEN <<>>
        ELSE << possibilities[CHOOSE i \in good : \A j \in good : ~Less(i, j)] >>

\* difflib.get_close_matches(word, possibilities, n=1, cutoff=0.6)
get_close_matches(word, possibilities) ==
    Largest(possibilities, [i \in 1..Len(possibilities) |-> ratio(possibilities[i], word)])

----------------------------------------------------------------------------
(* Food matching                                                           *)

\* the strategies of find_best_food_token, tried in this order
ExactMatch(token) ==
    LET exact == {i \in 1..Len(FOOD_KEYS) : token = Lower(FOOD_KEYS[i])}
    IN  IF exact = {} THEN [ok |-> FALSE, key |-> None, conf |-> 0]
        ELSE [ok |-> TRUE, key |-> FOOD_KEYS[Min(exact)], conf |-> 100]

CloseMatch(matches) ==
    IF matches = <<>> THEN [ok |-> FALSE, key |-> None, conf |-> 0]
    ELSE [ok |-> TRUE, key |-> matches[1], conf |-> 80]

PartialMatch(token) ==
    LET partial == {i \in 1..Len(FOOD_KEYS) : Contains(Lower(FOOD_KEYS[i]), token)}
    IN  IF partial = {} THEN [ok |-> FALSE, key |-> None, conf |-> 0]
        ELSE [ok |-> TRUE, key |-> FOOD_KEYS[Min(partial)], conf |-> 70]

\* the strategies with the close match tried before the exact one
BestOf_CloseFirst(token) ==
    FirstOk(<< CloseMatch(get_close_matches(token, FOOD_KEYS)),
               ExactMatch(token),
               PartialMatch(token) >>,
            [ok |-> FALSE, key |-> None, conf |-> 0])

\* the strategies in the order of the code: exact, close, partial, none
BestOf(token) ==
    FirstOk(<< ExactMatch(token),
               CloseMatch(get_close_matches(token, FOOD_KEYS)),
               PartialMatch(token) >>,
            [ok |-> FALSE, key |-> None, conf |-> 0])

find_best_food_token(token) == BestOf(Lower(Strip(token)))

----------------------------------------------------------------------------
(* Parsing                                                                 *)

\* if gm: the clause holds explicit grams gm; best is the match of the clause
\* without them
GramsItem(p, grams, token, best) ==
    [raw |-> p,
     food_key |-> IF best.key = None THEN token ELSE best.key,
     grams |-> grams,
     confidence |-> best.conf]

\* determine grams
GramsFor(num, unit, key) ==
    IF num # 0 /\ unit # <<>>
    THEN IF InUnitTable(unit) THEN num * UnitGrams(unit) ELSE num * 100
    ELSE IF num # 0 /\ unit = <<>>
    THEN \* assume number of servings
         IF InFoodDB(key) THEN num * FoodEntry(key).serving_g ELSE num * 100
    ELSE \* no number found
         IF InFoodDB(key) THEN 100 * FoodEntry(key).serving_g ELSE 100 * 100

\* if m: the clause matches number_unit_food_re with groups m; best is the
\* match of its food group
NumberItem(p, m, best) ==
    [raw |-> p,
     food_key |-> best.key,
     grams |-> GramsFor(NumberValue(m.number), Lower(m.unit), best.key),
     confidence |-> best.conf]

\* fallback: token is food name
BareItem(p, best) ==
    [raw |-> p,
     food_key |-> best.key,
     grams |-> IF InFoodDB(best.key) THEN 100 * FoodEntry(best.key).serving_g
               ELSE 100 * 100,
     confidence |-> best.conf]

ParseNumbered(p, m) ==
    IF m.ok THEN NumberItem(p, m, find_best_food_token(Lower(Strip(m.food))))
    ELSE BareItem(p, find_best_food_token(Lower(p)))

\* the branches of a clause with the number/unit pattern tried before the
\* explicit grams
ParseGrams_NumberFirst(p, gm) ==
    IF number_unit_food_match(p).ok
    THEN ParseNumbered(p, number_unit_food_match(p))
    ELSE IF gm.ok
    THEN GramsItem(p, NumberValue(SubSeq(p, gm.start, gm.numEnd - 1)),
                   Strip(grams_sub(p)), find_best_food_token(Strip(grams_sub(p))))
    ELSE ParseNumbered(p, number_unit_food_match(p))

\* the branches of a clause in the order of the code: explicit grams (gm is
\* grams_re.search(p)), then the number/unit pattern, then the bare food name
ParseGrams(p, gm) ==
    IF gm.ok
    THEN GramsItem(p, NumberValue(SubSeq(p, gm.start, gm.numEnd - 1)),
                   Strip(grams_sub(p)), find_best_food_token(Strip(grams_sub(p))))
    ELSE ParseNumbered(p, number_unit_food_match(p))

\* one clause p (stripped, not empty) of the meal text -> one item
ParseClause(p) == ParseGrams(p, grams_search(p))

RECURSIVE ParseParts(_)
ParseParts(parts) ==
    IF parts = <<>> THEN <<>>
    ELSE LET p == Strip(Head(parts))
         IN  (IF p = <<>> THEN <<>> ELSE << ParseClause(p) >>) \o ParseParts(Tail(parts))

parse_meal_text(text) == ParseParts(re_split(text))

----------------------------------------------------------------------------
(* Nutrition                                                               *)

NutrientNames == {NUTRIENTS[i] : i \in 1..Len(NUTRIENTS)}

\* round(x, n), with 10^-n = m units of x: the multiple of m nearest to x.  The
\* program rounds the binary double that stands for x; when x lies exactly
\* halfway between two multiples, that double lies on either side of the tie
\* and either multiple can come out.
Round(x, m) ==
    LET q == x \div m
        r == x % m
    IN  IF 2 * r < m THEN {q * m}
        ELSE IF 2 * r > m THEN {(q + 1) * m}
        ELSE {q * m, (q + 1) * m}

\* all ways to take one element from each set of a sequence of sets
RECURSIVE Choices(_)
Choices(sets) ==
    IF sets = <<>> THEN { <<>> }
    ELSE {<<h>> \o t : h \in Head(sets), t \in Choices(Tail(sets))}

\* a nutrient-indexed function for each way to round every nutrient of nut to
\* 2 places
RoundEach(nut) ==
    {[n \in NutrientNames |-> c[CHOOSE i \in 1..Len(NUTRIENTS) : NUTRIENTS[i] = n]] :
        c \in Choices([i \in 1..Len(NUTRIENTS) |-> Round(nut[NUTRIENTS[i]], 1000)])}

\* (grams / 100.0) * per100, in 1/100000
calc_nutrition_for_item(food_key, grams) ==
    IF ~InFoodDB(food_key)
    THEN [n \in NutrientNames |-> 0]
    ELSE [n \in NutrientNames |-> grams * FoodEntry(food_key)[n]]

RECURSIVE SumOver(_, _)
SumOver(item_nut_list, n) ==
    IF item_nut_list = <<>> THEN 0
    ELSE Head(item_nut_list)[n] + SumOver(Tail(item_nut_list), n)

\* the totals as the sums of the items' amounts rounded one by one
RECURSIVE SumOfRounded(_, _)
SumOfRounded(item_nut_list, n) ==
    IF item_nut_list = <<>> THEN 0
    ELSE Min(Round(Head(item_nut_list)[n], 1000)) + SumOfRounded(Tail(item_nut_list), n)

sum_totals_OfRounded(item_nut_list) ==
    {[n \in NutrientNames |-> SumOfRounded(item_nut_list, n)]}

\* the sums over the items, each rounded to 2 places at the end: the totals the
\* call can return
sum_totals(item_nut_list) ==
    RoundEach([n \in NutrientNames |-> SumOver(item_nut_list, n)])

----------------------------------------------------------------------------
(* Analysis                                                                *)

\* the lower threshold taken inclusive
PctBelow_Inclusive(total, r, bound) == total <= bound * r * 1000

\* pct = (totals[n] / r) * 100 compared with a whole number of percent
PctBelow(total, r, bound) == total < bound * r * 1000
PctAbove(total, r, bound) == total > bound * r * 1000

\* round(pct, 1) in 1/10 %
RoundPct(total, r) == {x \div (100 * r) : x \in Round(total, 100 * r)}

\* the flags nutrient n can add: none, or one with its level and round(pct, 1)
FlagOf(n, total) ==
    IF RDI[n] = 0 THEN { <<>> }
    ELSE IF PctBelow(total, RDI[n], 80)
    THEN {<< [level |-> "Low", nutrient |-> n, pct |-> x] >> : x \in RoundPct(total, RDI[n])}
    ELSE IF PctAbove(total, RDI[n], 120)
    THEN {<< [level |-> "High", nutrient |-> n, pct |-> x] >> : x \in RoundPct(total, RDI[n])}
    ELSE { <<>> }

SuggestionOf(n, total) ==
    IF RDI[n] = 0 THEN <<>>
    ELSE IF PctBelow(total, RDI[n], 80)
    THEN IF n = "protein" THEN <<"Add a protein source: egg, paneer, dal, or chicken.">>
         ELSE IF n = "fiber" THEN <<"Add vegetables or fruit (spinach, apple, banana).">>
         ELSE IF n = "vitamin_c" THEN <<"Add vitamin C rich food: orange, spinach, potato or fruits.">>
         ELSE IF n = "calories" THEN <<"Increase portion sizes or add an energy-dense item (nuts, paneer).">>
         ELSE <<>>
    ELSE IF PctAbove(total, RDI[n], 120)
    THEN IF n = "fat" THEN <<"Reduce fried items or oil; prefer grilled or steamed.">>
         ELSE IF n = "calories" THEN <<"Reduce portion or swap to lower-calorie alternatives.">>
         ELSE <<>>
    ELSE <<>>

\* the flags lists the loop over NUTRIENTS can build from nutrient i on
RECURSIVE FlagsFrom(_, _)
FlagsFrom(i, totals) ==
    IF i > Len(NUTRIENTS) THEN { <<>> }
    ELSE {f \o rest : f \in FlagOf(NUTRIENTS[i], totals[NUTRIENTS[i]]),
                      rest \in FlagsFrom(i + 1, totals)}

RECURSIVE SuggestionsFrom(_, _)
SuggestionsFrom(i, totals) ==
    IF i > Len(NUTRIENTS) THEN <<>>
    ELSE SuggestionOf(NUTRIENTS[i], totals[NUTRIENTS[i]]) \o SuggestionsFrom(i + 1, totals)

\* list(dict.fromkeys(xs)): first occurrences, in order
RECURSIVE Dedup(_)
Dedup(xs) ==
    IF xs = <<>> THEN <<>>
    ELSE LET front == Dedup(SubSeq(xs, 1, Len(xs) - 1))
             x     == xs[Len(xs)]
         IN  IF \E k \in 1..Len(front) : front[k] = x THEN front ELSE Append(front, x)

\* the entries a parsed item with nutrition nut can get in the result
EntryWith(p, nut) ==
    {[raw |-> p.raw, food_key |-> p.food_key, grams |-> g, confidence |-> c,
      nutrition |-> nutrition] :
        g \in Round(p.grams, 10),
        c \in Round(p.confidence, 1),
        nutrition \in RoundEach(nut)}

\* round() of one double gives one value: a total with a single item that
\* contributes to it (0.0 + x is x) shows what that item shows
SameDoubleSameRound(items, totals, item_nut_list) ==
    \A n \in NutrientNames :
        \A i \in 1..Len(items) :
            (\A j \in 1..Len(items) : j # i => item_nut_list[j][n] = 0)
                => totals[n] = items[i].nutrition[n]

\* the results of a call whose parse_meal_text returned parsed_items and that
\* computed item_nut_list for them
ResultsOf(parsed_items, item_nut_list) ==
    UNION {{[parsed_items |-> items, totals |-> totals, flags |-> flags,
             suggestions |-> Dedup(SuggestionsFrom(1, totals))] :
                items \in {c \in Choices([i \in 1..Len(parsed_items) |->
                                            EntryWith(parsed_items[i], item_nut_list[i])]) :
                              SameDoubleSameRound(c, totals, item_nut_list)},
                flags \in FlagsFrom(1, totals)} :
           totals \in sum_totals(item_nut_list)}

Analysed(parsed_items) ==
    ResultsOf(parsed_items,
              [i \in 1..Len(parsed_items) |->
                  calc_nutrition_for_item(parsed_items[i].food_key, parsed_items[i].grams)])

\* the results analyze_meal_text(text) can return
analyze_meal_text(text) == Analysed(parse_meal_text(text))

----------------------------------------------------------------------------
(* The requests a client sends                                             *)

\* at most this many clauses in a composed meal text
MaxClauses == 2
\* at most this many requests are served
MaxRequests == 2

\* meal texts of one clause
Clauses ==
    {
       <<"2"," ","e","g","g","s">>, \* 2 eggs
       <<"2"," ","e","g","g">>, \* 2 egg
       <<"1"," ","c","u","p"," ","r","i","c","e">>, \* 1 cup rice
       <<"2"," ","c","u","p","s"," ","r","i","c","e">>, \* 2 cups rice
       <<"2"," ","C","u","p","s"," ","r","i","c","e">>, \* 2 Cups rice
       <<"2"," ","s","e","r","v","i","n","g","s"," ","o","f"," ","d","a","l">>, \* 2 servings of dal
       <<"b","a","n","a","n","a">>, \* banana
       <<"0","g"," ","r","i","c","e">>, \* 0g rice
       <<"0"," ","c","u","p","s"," ","r","i","c","e">>, \* 0 cups rice
       <<"0"," ","r","i","c","e">>, \* 0 rice
       <<"2"," ","s","l","i","c","e","s"," ","o","f"," ","1","0","0","g"," ","b","r","e","a","d">>, \* 2 slices of 100g bread
       <<"1","g"," ","r","i","c","e">>, \* 1g rice
       <<"1",".","2","5","g"," ","r","i","c","e">>, \* 1.25g rice
       <<"4","0","0","g"," ","d","a","l">>, \* 400g dal
       <<"5","0","0","g"," ","d","a","l">>, \* 500g dal
       <<"2"," ","k","g"," ","r","i","c","e">>, \* 2 kg rice
       <<"2"," ","t","e","a","s","p","o","o","n"," ","s","u","g","a","r">>, \* 2 teaspoon sugar
       <<"2"," ","t","b","s","p"," ","d","a","l">>, \* 2 tbsp dal
       <<"2"," ","b","a","n","a","n","a">>, \* 2 banana
       <<"3"," ","p","i","z","z","a">>, \* 3 pizza
       <<"p","i","z","z","a">>, \* pizza
       <<"1",".","5"," ","c","u","p","s"," ","r","i","c","e">>, \* 1.5 cups rice
       <<"s","a","n","d","w","i","c","h">>, \* sandwich
       <<"b","a","n","a","n","a","s">>, \* bananas
       <<"f","r","i">>, \* fri
       <<"r","i","c","e">>, \* rice
       <<"1","0","0","g">>, \* 100g
       <<"2","5">>, \* 25
       <<"2"," ","e","g","g","s"," ","1"," ","b","a","n","a","n","a">>, \* 2 eggs 1 banana
       <<"r","i","c","e"," ","2"," ","c","u","p","s">>, \* rice 2 cups
       <<"b","a","n","a","n">>, \* banan
       <<"5","g"," ","d","a","l"," ","3","g">>, \* 5g dal 3g
       <<"r","i","c","e"," ","2"," ","o","f"," ","3">>, \* rice 2 of 3
       <<"2"," ","b","a","n","a","n","a"," ","3">>, \* 2 banana 3
       <<"3"," ","t","s","p"," ","o","f"," ","d","a","l">>, \* 3 tsp of dal
       <<"1","g"," ","r","i","c","e"," ","A","n","d"," ","b","a","n","a","n","a">>, \* 1g rice And banana
       <<"e","g","g"," ","s","a","n","d","w","i","c","h"," ","a","n","d"," ","d","a","l">>  \* egg sandwich and dal
    }

\* what composed meal texts are made of: clauses (one of them empty) ...
Parts == { <<"1","g"," ","r","i","c","e">>, <<"2"," ","e","g","g">>, <<>> }
\* ... and what stands between them
Separators == { <<",">>, <<" ","a","n","d"," ">>, <<" ","A","N","D"," ">> }

RECURSIVE Composed(_)
Composed(k) ==
    IF k = 1 THEN Parts
    ELSE {t \o sep \o c : t \in Composed(k - 1), sep \in Separators, c \in Parts}

\* the meal_text values of the modelled requests: empty, blank, one clause, or
\* up to MaxClauses parts
Texts ==
    { <<>>, <<" "," ">> } \cup Clauses \cup UNION {Composed(k) : k \in 1..MaxClauses}

----------------------------------------------------------------------------
(* The /analyze route and the audit log                                    *)

NoText == <<"none">>
NoResponse == [status |-> 0, body |-> [none |-> TRUE]]

Init ==
    /\ phase = "idle"
    /\ request = NoText
    /\ parsed = <<>>
    /\ response = NoResponse
    /\ sinkCall = <<>>
    /\ dbOpen = FALSE
    /\ logs = 0
    /\ warnings = 0
    /\ analyses = 0
    /\ saves = 0
    /\ served = 0

\* a client posts {"meal_text": text} to /analyze
Post(text) ==
    /\ phase = "idle"
    /\ served < MaxRequests
    /\ phase' = "pending"
    /\ request' = text
    /\ served' = served + 1
    /\ UNCHANGED <<parsed, response, sinkCall, dbOpen, logs, warnings, analyses, saves>>

\* save_log(raw_text, totals_dict): opens the connection, inserts the row and
\* commits, or raises on the way (raised)
save_log(raw_text, totals_dict, raised) ==
    /\ saves' = saves + 1
    /\ sinkCall' = Append(sinkCall, [raw_text |-> raw_text, totals |-> totals_dict])
    /\ IF raised
       THEN /\ logs' = logs
            /\ dbOpen' \in BOOLEAN
       ELSE /\ logs' = logs + 1
            /\ dbOpen' = TRUE

\* the handler without the try/except around save_log: a failure of the sink
\* becomes the answer
analyze_SinkFailureSurfaces ==
    /\ phase = "pending"
    /\ IF Strip(request) = <<>>
       THEN /\ response' = [status |-> 400, body |-> [error |-> "Empty input"]]
            /\ UNCHANGED <<parsed, sinkCall, dbOpen, logs, warnings, analyses, saves>>
       ELSE \E result \in analyze_meal_text(request), raised \in BOOLEAN :
                /\ analyses' = analyses + 1
                /\ parsed' = parse_meal_text(request)
                /\ save_log(request, result.totals, raised)
                /\ warnings' = warnings
                /\ response' = IF raised
                               THEN [status |-> 500, body |-> [error |-> "Internal Server Error"]]
                               ELSE [status |-> 200, body |-> result]
    /\ phase' = "responded"
    /\ UNCHANGED <<request, served>>

\* the handler of POST /analyze
analyze ==
    /\ phase = "pending"
    /\ IF Strip(request) = <<>>
       THEN /\ response' = [status |-> 400, body |-> [error |-> "Empty input"]]
            /\ UNCHANGED <<parsed, sinkCall, dbOpen, logs, warnings, analyses, saves>>
       ELSE \E result \in analyze_meal_text(request), raised \in BOOLEAN :
                /\ analyses' = analyses + 1
                /\ parsed' = parse_meal_text(request)
                /\ save_log(request, result.totals, raised)
                /\ warnings' = IF raised THEN warnings + 1 ELSE warnings
                /\ response' = [status |-> 200, body |-> result]
    /\ phase' = "responded"
    /\ UNCHANGED <<request, served>>

\* teardown of the request's application context
close_connection ==
    /\ phase = "responded"
    /\ phase' = "idle"
    /\ dbOpen' = FALSE
    /\ request' = NoText
    /\ parsed' = <<>>
    /\ response' = NoResponse
    /\ sinkCall' = <<>>
    /\ UNCHANGED <<logs, warnings, analyses, saves, served>>

Next ==
    \/ \E text \in Texts : Post(text)
    \/ analyze
    \/ close_connection

Spec == Init /\ [][Next]_vars

----------------------------------------------------------------------------
(* What the documentation says of a clause, read without the parser        *)

\* a request has been analysed and answered
Answered == phase = "responded" /\ response.status = 200

\* the position after the number p starts with: <digits>[.<digits>], as long as
\* it goes (1 if p starts with no number)
LeadEnd(p) ==
    LET d == DigitRun(p, 1)
    IN  IF d = 0 THEN 1
        ELSE IF d + 2 <= Len(p) /\ p[d + 1] = "." /\ DigitRun(p, d + 2) > 0
        THEN d + 2 + DigitRun(p, d + 2)
        ELSE d + 1

\* the value of that number, in 1/100
LeadNumber(p) == NumberValue(SubSeq(p, 1, LeadEnd(p) - 1))

\* the position after the word that starts at i
WordEnd(p, i) ==
    CHOOSE e \in i..(Len(p) + 1) :
        /\ \A k \in i..(e - 1) : ~IsSpace(p[k])
        /\ (e > Len(p) \/ IsSpace(p[e]))

\* the word that follows the leading number, in lower case
WordAfterNumber(p) ==
    LET w == LeadEnd(p) + SpaceRun(p, LeadEnd(p))
    IN  Lower(SubSeq(p, w, WordEnd(p, w) - 1))

\* the unit aliases the pattern names
UnitWords == {UnitAlternatives[u] : u \in 1..Len(UnitAlternatives)}

\* the unit word written after the leading number (<<>> if none)
ClauseUnit(p) ==
    IF LeadEnd(p) > 1 /\ WordAfterNumber(p) \in UnitWords THEN WordAfterNumber(p) ELSE <<>>

\* the food text: what follows the number, the unit word and an "of"
AfterUnit(p) ==
    LET w == LeadEnd(p) + SpaceRun(p, LeadEnd(p))
    IN  IF ClauseUnit(p) = <<>> THEN Strip(SubSeq(p, LeadEnd(p), Len(p)))
        ELSE Strip(SubSeq(p, WordEnd(p, w), Len(p)))

FoodText(p) ==
    IF /\ MatchesAtI(AfterUnit(p), 1, <<"o","f">>)
       /\ Len(AfterUnit(p)) > 2
       /\ IsSpace(AfterUnit(p)[3])
    THEN Strip(SubSeq(AfterUnit(p), 3, Len(AfterUnit(p))))
    ELSE AfterUnit(p)

\* p[s..e-1] reads <digits> or <digits>.<digits>
IsNumeralSpan(p, s, e) ==
    /\ s < e
    /\ IsDigit(p[s])
    /\ IsDigit(p[e - 1])
    /\ \A k \in s..(e - 1) : IsDigit(p[k]) \/ p[k] = "."
    /\ Cardinality({k \in s..(e - 1) : p[k] = "."}) <= 1

\* an explicit gram quantity: the number p[s..e-1], then spaces if any, then a
\* standalone "g"
GramTokenAt(p, s, e) ==
    /\ IsNumeralSpan(p, s, e)
    /\ \E w \in 0..(Len(p) - e) :
          /\ \A k \in 0..(w - 1) : IsSpace(p[e + k])
          /\ LowerChar(p[e + w]) = "g"
          /\ WordBoundary(p, e + w + 1)

GramTokens(p) ==
    {t \in (1..Len(p)) \X (2..(Len(p) + 1)) : GramTokenAt(p, t[1], t[2])}

\* how many numbers a clause holds
NumericTokens(p) ==
    Cardinality({i \in 1..Len(p) :
                    /\ IsDigit(p[i])
                    /\ ~(i > 1 /\ IsDigit(p[i - 1]))
                    /\ ~(i > 2 /\ p[i - 1] = "." /\ IsDigit(p[i - 2]))})

\* the grams the documented rules give a clause without explicit grams whose
\* food matched key
RuleGrams(p, key) ==
    IF LeadEnd(p) > 1 /\ ClauseUnit(p) # <<>>
    THEN IF InUnitTable(ClauseUnit(p)) THEN LeadNumber(p) * UnitGrams(ClauseUnit(p))
         ELSE LeadNumber(p) * 100
    ELSE IF LeadEnd(p) > 1
    THEN IF InFoodDB(key) THEN LeadNumber(p) * FoodEntry(key).serving_g
         ELSE LeadNumber(p) * 100
    ELSE IF InFoodDB(key) THEN 100 * FoodEntry(key).serving_g ELSE 100 * 100

\* the gram weights a number can be multiplied with when the food matched key
GramWeights(key) ==
    {UNIT_TO_G[u].g : u \in 1..Len(UNIT_TO_G)} \cup {100}
    \cup (IF InFoodDB(key) THEN {FoodEntry(key).serving_g} ELSE {})

\* the per-100 g value of nutrient n of the food key, 0 for no food of the table
Per100(key, n) == IF InFoodDB(key) THEN FoodEntry(key)[n] ELSE 0

RECURSIVE ExactSum(_, _)
ExactSum(items, n) ==
    IF items = <<>> THEN 0
    ELSE Head(items).grams * Per100(Head(items).food_key, n) + ExactSum(Tail(items), n)

RECURSIVE ShownSum(_, _)
ShownSum(items, n) ==
    IF items = <<>> THEN 0
    ELSE Head(items).nutrition[n] + ShownSum(Tail(items), n)

NonEmpty(c) == IF c = <<>> THEN <<>> ELSE << c >>

\* the separator the documentation describes at position i: a comma, or the
\* standalone word "and" in any case
ClauseSepLen(text, i) ==
    IF text[i] = "," THEN 1
    ELSE IF /\ MatchesAtI(text, i, <<"a","n","d">>)
            /\ WordBoundary(text, i)
            /\ WordBoundary(text, i + 3)
         THEN 3
         ELSE 0

RECURSIVE ClausesFrom(_, _, _)
ClausesFrom(text, i, start) ==
    IF i > Len(text) THEN NonEmpty(Strip(SubSeq(text, start, Len(text))))
    ELSE IF ClauseSepLen(text, i) > 0
    THEN NonEmpty(Strip(SubSeq(text, start, i - 1)))
         \o ClausesFrom(text, i + ClauseSepLen(text, i), i + ClauseSepLen(text, i))
    ELSE ClausesFrom(text, i + 1, start)

\* the non-empty clauses of a text, trimmed, in order
ClausesOf(text) == ClausesFrom(text, 1, 1)

----------------------------------------------------------------------------
(* The claims                                                              *)

\* C1: the answer to a text that is not blank holds exactly one item, in the
\* order of the text, for each non-empty clause obtained by splitting on
\* commas and on the standalone word "and" in any case ("and", "And", "AND").
C1_OneItemPerClause ==
    Answered =>
        [i \in 1..Len(response.body.parsed_items) |-> response.body.parsed_items[i].raw]
            = ClausesOf(request)

\* C2: "2 eggs" gives exactly one item with grams 100.0, food_key "egg",
\* confidence 1.0, calories 155.0 and protein 13.0.
C2_TwoEggs ==
    (Answered /\ request = <<"2"," ","e","g","g","s">>) =>
        /\ Len(response.body.parsed_items) = 1
        /\ response.body.parsed_items[1].grams = 100 * 100
        /\ response.body.parsed_items[1].food_key = <<"e","g","g">>
        /\ response.body.parsed_items[1].confidence = 100
        /\ response.body.parsed_items[1].nutrition["calories"] = 155 * 100000
        /\ response.body.parsed_items[1].nutrition["protein"] = 13 * 100000

\* C3: every item parse_meal_text produces has grams strictly greater than 0,
\* whatever the clause, a written quantity of 0 included.
C3_GramsPositive ==
    Answered => \A i \in 1..Len(parsed) : parsed[i].grams > 0

\* C4: a clause without an explicit "<number>g" quantity gets its grams by the
\* documented rules for every number written, zero included: number x unit
\* grams, number x 100 for a unit absent from the unit table, number x the
\* food's serving_g (or x 100) without a unit, the serving_g (or 100) without a
\* number.
C4_GramsByRule ==
    Answered =>
        \A i \in 1..Len(parsed) :
            (GramTokens(parsed[i].raw) = {} /\ FoodText(parsed[i].raw) # <<>>)
                => parsed[i].grams = RuleGrams(parsed[i].raw, parsed[i].food_key)

C6_TotalsOfShownValues ==
    Answered =>
        \A n \in NutrientNames :
            response.body.totals[n] \in Round(ShownSum(response.body.parsed_items, n), 1000)

\* C6 as amended: every total equals the sum of the items' exact amounts
\* (grams / 100 x the per-100 g value of the matched food, 0 without one),
\* rounded to 2 places once, after the sum; it is 0 for a text of no clause.
C6_TotalsOfExactAmounts ==
    Answered =>
        \A n \in NutrientNames :
            /\ response.body.totals[n] \in Round(ExactSum(parsed, n), 1000)
            /\ (parsed = <<>> => response.body.totals[n] = 0)

\* a total of two items that differs from the sum of their shown values
C6_Witness ==
    /\ Answered
    /\ Len(response.body.parsed_items) = 2
    /\ \E n \in NutrientNames :
          /\ response.body.totals[n] # ShownSum(response.body.parsed_items, n)
          /\ response.body.totals[n] \in Round(ExactSum(parsed, n), 1000)

\* a clause without a digit is matched as a whole, in lower case
Digitless(p) == \A k \in 1..Len(p) : ~IsDigit(p[k])
KeysEqual(token) == {k \in 1..Len(FOOD_KEYS) : Lower(FOOD_KEYS[k]) = token}
KeysClose(token) == {k \in 1..Len(FOOD_KEYS) : AtLeastCutoff(ratio(FOOD_KEYS[k], token))}
KeysHolding(token) == {k \in 1..Len(FOOD_KEYS) : Contains(Lower(FOOD_KEYS[k]), token)}

\* C7: the strategies are tried in the order exact, close (ratio >= 0.6),
\* substring, none, and the first that hits decides: a token equal to a key
\* gets that key with 1.0 whatever else is compatible, a close one 0.8, a
\* contained one 0.7, no hit (None, 0.0); every confidence is one of 0.0, 0.7,
\* 0.8, 1.0 and it is 0.0 exactly when no key of the table was matched.
C7_MatchOrder ==
    Answered =>
        \A i \in 1..Len(parsed) :
            /\ parsed[i].confidence \in {0, 70, 80, 100}
            /\ (parsed[i].confidence = 0) <=> ~InFoodDB(parsed[i].food_key)
            /\ Digitless(parsed[i].raw) =>
                  IF KeysEqual(Lower(parsed[i].raw)) # {}
                  THEN /\ parsed[i].confidence = 100
                       /\ Lower(parsed[i].food_key) = Lower(parsed[i].raw)
                  ELSE IF KeysClose(Lower(parsed[i].raw)) # {}
                  THEN /\ parsed[i].confidence = 80
                       /\ \E k \in KeysClose(Lower(parsed[i].raw)) :
                             parsed[i].food_key = FOOD_KEYS[k]
                  ELSE IF KeysHolding(Lower(parsed[i].raw)) # {}
                  THEN /\ parsed[i].confidence = 70
                       /\ \E k \in KeysHolding(Lower(parsed[i].raw)) :
                             parsed[i].food_key = FOOD_KEYS[k]
                  ELSE /\ parsed[i].confidence = 0
                       /\ parsed[i].food_key = None

\* a token equal to one key and contained in another got the equal key with
\* confidence 1.0
C7_Witness ==
    /\ Answered
    /\ \E i \in 1..Len(parsed) :
          /\ Digitless(parsed[i].raw)
          /\ KeysEqual(Lower(parsed[i].raw)) # {}
          /\ KeysHolding(Lower(parsed[i].raw)) \ KeysEqual(Lower(parsed[i].raw)) # {}
          /\ parsed[i].confidence = 100

\* the flags of the answer that name nutrient n
FlagsOn(n) ==
    {f \in 1..Len(response.body.flags) : response.body.flags[f].nutrient = n}

\* the place of nutrient n in NUTRIENTS
Place(n) == CHOOSE k \in 1..Len(NUTRIENTS) : NUTRIENTS[k] = n

\* totals[n] in 1/100 against a percentage of RDI[n]
UnderPct(n, pct) == (response.body.totals[n] \div 1000) * 100 < pct * RDI[n] * 100
OverPct(n, pct) == (response.body.totals[n] \div 1000) * 100 > pct * RDI[n] * 100

\* C8: a nutrient below 80 % of its RDI gets exactly one flag, "Low"; above
\* 120 % exactly one, "High"; from 80 % to 120 %, both ends included, none; and
\* the flags stand in the order of NUTRIENTS.
C8_Flags ==
    Answered =>
        /\ \A n \in NutrientNames :
              IF UnderPct(n, 80)
              THEN \E f \in FlagsOn(n) :
                      FlagsOn(n) = {f} /\ response.body.flags[f].level = "Low"
              ELSE IF OverPct(n, 120)
              THEN \E f \in FlagsOn(n) :
                      FlagsOn(n) = {f} /\ response.body.flags[f].level = "High"
              ELSE FlagsOn(n) = {}
        /\ \A f, g \in 1..Len(response.body.flags) :
              f < g => Place(response.body.flags[f].nutrient)
                          < Place(response.body.flags[g].nutrient)

\* one total stands exactly at 80 % of its RDI and one exactly at 120 %, and
\* neither is flagged, while a total below 80 % is
C8_Witness ==
    /\ Answered
    /\ \E n, m \in NutrientNames :
          /\ (response.body.totals[n] \div 1000) * 100 = 80 * RDI[n] * 100
          /\ (response.body.totals[m] \div 1000) * 100 = 120 * RDI[m] * 100
          /\ FlagsOn(n) = {}
          /\ FlagsOn(m) = {}
    /\ \E n \in NutrientNames : UnderPct(n, 80) /\ FlagsOn(n) # {}

\* C9: a blank text is answered with the empty-input error and neither the
\* analysis nor save_log runs; any other text is analysed, save_log is called
\* exactly once with the raw text and the computed totals, and the analysis is
\* the answer whether save_log succeeds or raises.
C9_Handler ==
    [][(phase = "pending" /\ phase' = "responded") =>
          IF Strip(request) = <<>>
          THEN /\ response'.status = 400
               /\ response'.body = [error |-> "Empty input"]
               /\ analyses' = analyses
               /\ saves' = saves
               /\ sinkCall' = sinkCall
               /\ logs' = logs
          ELSE /\ analyses' = analyses + 1
               /\ saves' = saves + 1
               /\ response'.status = 200
               /\ response'.body \in analyze_meal_text(request)
               /\ sinkCall' = << [raw_text |-> request, totals |-> response'.body.totals] >>
               /\ logs' \in {logs, logs + 1}]_vars

\* save_log raised in a request whose analysis was still answered
C9_Witness ==
    /\ Answered
    /\ Len(sinkCall) = 1
    /\ saves = 1
    /\ logs = 0
    /\ warnings = 1

\* C10: for a clause "<number> <unit> [of] <food text>" with any unit alias,
\* plural ones included, the whole unit word is consumed and the food is
\* matched on exactly <food text>.
C10_FoodTextMatched ==
    Answered =>
        \A i \in 1..Len(parsed) :
            (/\ NumericTokens(parsed[i].raw) = 1
             /\ ClauseUnit(parsed[i].raw) # <<>>
             /\ FoodText(parsed[i].raw) # <<>>) =>
                /\ parsed[i].confidence
                      = find_best_food_token(FoodText(parsed[i].raw)).conf
                /\ parsed[i].confidence > 0 =>
                      parsed[i].food_key
                          = find_best_food_token(FoodText(parsed[i].raw)).key

====
